---- MODULE Spec2Model ----
(***************************************************************************)
(* Model of apps/greencheck/domain_check.py (GreenDomainChecker): the      *)
(* read path that resolves a domain, matches the address against the       *)
(* GreencheckIp and GreencheckASN tables and builds SiteCheck and          *)
(* GreenDomain values, plus the two list helpers used for batch checks.    *)
(*                                                                         *)
(* Tables are sequences of rows in primary-key order (QuerySet.first() on  *)
(* a queryset with no order_by orders by pk).  Nullable values are         *)
(* sequences of length 0 or 1.  Strings returned by the IP-to-ASN service  *)
(* are sequences of one-character strings.                                 *)
(***************************************************************************)
EXTENDS Integers, Sequences, FiniteSets, TLC

VARIABLES ranges, asns, now, call, prev, urls_list, queryset

vars == <<ranges, asns, now, call, prev, urls_list, queryset>>

(* ------------------------------- bounds -------------------------------- *)
MaxRanges == 2
MaxASNs == 2
MaxLen == 3
MaxClock == 2
MaxUrls == 3
MaxGreen == 2

(* ------------------------------ value sets ----------------------------- *)
Null == <<>>
Some(x) == <<x>>

(* a two-address space: room for nested, equal and disjoint ranges *)
IPs == {0, 1}
Hosts == {"a.com", "b.com"}
Urls == {"a.com", "A.com", "b.com"}
AsnNumbers == {1, 2}
Alphabet == {"1", "2", " ", "N"}
Digits == {"1", "2"}

SeqsUpTo(S, n) == UNION {[1..k -> S] : k \in 0..n}

(* str(ipaddress) and ipaddress.ip_address(str): dotted text of an address *)
str(ip) == "10.0.0." \o ToString(ip)
ipaddress_ip_address(ip_string) == CHOOSE n \in IPs : str(n) = ip_string

(* socket.gethostbyname: an address in text form, or socket.gaierror *)
DnsAnswers == {"gaierror"} \cup {str(n) : n \in IPs}

(* IPASN.lookup()["asn"]: raises IPDefinedError, raises something else,    *)
(* returns an int, or returns a string                                     *)
Lookup(kind, int, text) == [kind |-> kind, int |-> int, text |-> text]
AsnStrings == SeqsUpTo(Alphabet, MaxLen)
AllLookups ==
    {Lookup("IPDefinedError", 0, <<>>), Lookup("Exception", 0, <<>>)}
    \cup {Lookup("int", n, <<>>) : n \in AsnNumbers}
    \cup {Lookup("str", 0, s) : s \in AsnStrings}
FewLookups ==
    {Lookup("IPDefinedError", 0, <<>>), Lookup("Exception", 0, <<>>)}
    \cup {Lookup("int", n, <<>>) : n \in AsnNumbers}
    \cup {Lookup("str", 0, s) :
            s \in {<<"1">>, <<"1", " ", "2">>, <<"2", " ", "1">>, <<"N">>}}

(* ------------------------------- tables -------------------------------- *)
(* GreencheckIp rows; the owner of row i is provider 10 + i *)
RangeRow(i, lo, hi) ==
    [id |-> i, ip_start |-> lo, ip_end |-> hi, hostingprovider |-> 10 + i]
RangeTables ==
    {t \in SeqsUpTo([ip_start : IPs, ip_end : IPs], MaxRanges) :
        \A i \in DOMAIN t : t[i].ip_start <= t[i].ip_end}
MakeRanges(t) == [i \in DOMAIN t |-> RangeRow(i, t[i].ip_start, t[i].ip_end)]

(* GreencheckASN rows; the owner of row i is provider 20 + i *)
AsnRow(i, n, a) ==
    [id |-> i, asn |-> n, active |-> a, hostingprovider |-> 20 + i]
AsnTables == SeqsUpTo([asn : AsnNumbers, active : BOOLEAN], MaxASNs)
MakeAsns(t) == [i \in DOMAIN t |-> AsnRow(i, t[i].asn, t[i].active)]
(* tables that register an AS number at most once *)
UniqueAsnTables ==
    {t \in AsnTables : \A i, j \in DOMAIN t : t[i].asn = t[j].asn => i = j}

(* variant of first: the row order is left to the database and shifts *)
first_unordered(qs) ==
    IF qs = <<>> THEN Null ELSE Some(qs[(now % Len(qs)) + 1])

(* QuerySet.first(): the first row in pk order, or None *)
first(qs) == IF qs = <<>> THEN Null ELSE Some(qs[1])

(* ------------------------- GreenDomainChecker --------------------------- *)
(* check_for_matching_ip_ranges: filter(ip_end__gte, ip_start__lte).first() *)
check_for_matching_ip_ranges(ip_address) ==
    first(SelectSeq(ranges,
            LAMBDA r : r.ip_end >= ip_address /\ r.ip_start <= ip_address))

(* str.split(" "): cut at every single space, empty pieces are kept *)
RECURSIVE split(_)
split(s) ==
    IF \E i \in DOMAIN s : s[i] = " "
    THEN LET i == CHOOSE k \in DOMAIN s :
                    s[k] = " " /\ \A j \in 1..(k - 1) : s[j] # " "
         IN <<SubSeq(s, 1, i - 1)>> \o split(SubSeq(s, i + 1, Len(s)))
    ELSE <<s>>

(* int(text) as the integer field's lookup does: fails unless all digits *)
IsNumber(tok) == tok # <<>> /\ \A i \in DOMAIN tok : tok[i] \in Digits
DigitValue(c) == IF c = "1" THEN 1 ELSE 2
RECURSIVE int(_)
int(tok) ==
    IF tok = <<>> THEN 0
    ELSE 10 * int(SubSeq(tok, 1, Len(tok) - 1)) + DigitValue(tok[Len(tok)])

(* GreencheckASN.objects.filter(asn=value) *)
asn_filter(value) == SelectSeq(asns, LAMBDA r : r.asn = value)

AsnRet(raised, value, row) == [raised |-> raised, value |-> value, row |-> row]

(* the for loop over the candidates of a multi-ASN string *)
RECURSIVE asn_loop(_)
asn_loop(candidates) ==
    IF candidates = <<>> THEN AsnRet("none", "None", Null)
    ELSE IF ~IsNumber(Head(candidates)) THEN AsnRet("ValueError", "None", Null)
    ELSE LET asn_match == asn_filter(int(Head(candidates)))
         IN IF asn_match # <<>>
            THEN AsnRet("none", "row", first(asn_match))
            ELSE asn_loop(Tail(candidates))

(* check_for_matching_asn; asn_result is the outcome of asn_from_ip(ip) *)
check_for_matching_asn(asn_result) ==
    IF asn_result.kind = "IPDefinedError" THEN AsnRet("none", "False", Null)
    ELSE IF asn_result.kind = "Exception" THEN AsnRet("none", "False", Null)
    ELSE IF asn_result.kind = "int"
    THEN LET m == first(asn_filter(asn_result.int))
         IN AsnRet("none", IF m = Null THEN "None" ELSE "row", m)
    ELSE asn_loop(split(asn_result.text))

SiteCheck(url, ip, data, green, hp, match_type, match_ip_range) ==
    [url |-> url, ip |-> ip, data |-> data, green |-> green,
     hosting_provider_id |-> hp, match_type |-> match_type,
     match_ip_range |-> match_ip_range, cached |-> FALSE, checked_at |-> now]

green_sitecheck_by_ip_range(domain, ip_address, ip_match) ==
    SiteCheck(domain, str(ip_address), TRUE, TRUE,
              Some(ip_match.hostingprovider), Some("ip"), Some(ip_match.id))

green_sitecheck_by_asn(domain, ip_address, matching_asn) ==
    SiteCheck(domain, str(ip_address), TRUE, TRUE,
              Some(matching_asn.hostingprovider), Some("as"),
              Some(matching_asn.id))

(* variant of grey_sitecheck: the data flag left set *)
grey_sitecheck_with_data(domain, ip_address) ==
    SiteCheck(domain, str(ip_address), TRUE, FALSE, Null, Null, Null)

grey_sitecheck(domain, ip_address) ==
    SiteCheck(domain, str(ip_address), FALSE, FALSE, Null, Null, Null)

Outcome(raised, ret, lookups) ==
    [raised |-> raised, ret |-> ret, lookups |-> lookups]

(* variant of check_domain: the ASN table is consulted before the ranges *)
check_domain_asn_first(domain, dns, asn_result) ==
    IF dns = "gaierror" THEN Outcome("gaierror", Null, 0)
    ELSE LET ip == ipaddress_ip_address(dns)
             ip_match == check_for_matching_ip_ranges(ip)
             matching_asn == check_for_matching_asn(asn_result)
         IN IF matching_asn.raised # "none"
            THEN Outcome(matching_asn.raised, Null, 1)
            ELSE IF matching_asn.row # Null
            THEN Outcome("none",
                    Some(green_sitecheck_by_asn(domain, ip, matching_asn.row[1])), 1)
            ELSE IF ip_match # Null
            THEN Outcome("none",
                    Some(green_sitecheck_by_ip_range(domain, ip, ip_match[1])), 1)
            ELSE Outcome("none", Some(grey_sitecheck(domain, ip)), 1)

(* check_domain; dns is what gethostbyname does for the domain, asn_result *)
(* what asn_from_ip would do for the address; lookups counts its calls     *)
check_domain(domain, dns, asn_result) ==
    IF dns = "gaierror" THEN Outcome("gaierror", Null, 0)
    ELSE LET ip == ipaddress_ip_address(dns)
             ip_match == check_for_matching_ip_ranges(ip)
             matching_asn == check_for_matching_asn(asn_result)
         IN IF ip_match # Null
            THEN Outcome("none",
                    Some(green_sitecheck_by_ip_range(domain, ip, ip_match[1])), 0)
            ELSE IF matching_asn.raised # "none"
            THEN Outcome(matching_asn.raised, Null, 1)
            ELSE IF matching_asn.row # Null
            THEN Outcome("none",
                    Some(green_sitecheck_by_asn(domain, ip, matching_asn.row[1])), 1)
            ELSE Outcome("none", Some(grey_sitecheck(domain, ip)), 1)

(* GreenDomain.grey_result and GreenDomain.from_sitecheck *)
GreenDomain(url, hosted_by_id, green) ==
    [url |-> url, hosted_by_id |-> hosted_by_id, green |-> green]
grey_result(domain) == GreenDomain(domain, Null, FALSE)
from_sitecheck(sitecheck) ==
    GreenDomain(sitecheck.url, sitecheck.hosting_provider_id, sitecheck.green)

(* variant of perform_full_lookup: the grey summary keyed by the address *)
perform_full_lookup_by_ip(domain, dns, asn_result) ==
    LET checked == check_domain(domain, dns, asn_result)
    IN IF checked.raised # "none"
       THEN Outcome(checked.raised, Null, checked.lookups)
       ELSE LET res == checked.ret[1]
            IN IF ~res.green
               THEN Outcome("none", Some(grey_result(res.ip)), checked.lookups)
               ELSE Outcome("none", Some(from_sitecheck(res)), checked.lookups)

(* perform_full_lookup; dns and asn_result as for check_domain *)
perform_full_lookup(domain, dns, asn_result) ==
    LET checked == check_domain(domain, dns, asn_result)
    IN IF checked.raised # "none"
       THEN Outcome(checked.raised, Null, checked.lookups)
       ELSE LET res == checked.ret[1]
            IN IF ~res.green
               THEN Outcome("none", Some(grey_result(res.url)), checked.lookups)
               ELSE Outcome("none", Some(from_sitecheck(res)), checked.lookups)

(* variant of grey_urls_only: hosts compared without regard to case *)
lower(url) == IF url = "A.com" THEN "a.com" ELSE url
grey_urls_only_nocase(urls, qs) ==
    LET green_list == [i \in DOMAIN qs |-> lower(qs[i].url)]
    IN SelectSeq(urls,
          LAMBDA url : ~(\E i \in DOMAIN green_list : green_list[i] = lower(url)))

(* grey_urls_only *)
grey_urls_only(urls, qs) ==
    LET green_list == [i \in DOMAIN qs |-> qs[i].url]
    IN SelectSeq(urls,
          LAMBDA url : ~(\E i \in DOMAIN green_list : green_list[i] = url))

(* variant of build_green_greylist: the grey summaries put first *)
build_grey_greenlist(grey_list, green_list) ==
    LET grey_domains == [i \in DOMAIN grey_list |-> grey_result(grey_list[i])]
        evaluated_green_queryset == [i \in 1..Len(green_list) |-> green_list[i]]
    IN grey_domains \o evaluated_green_queryset

(* build_green_greylist *)
build_green_greylist(grey_list, green_list) ==
    LET grey_domains == [i \in DOMAIN grey_list |-> grey_result(grey_list[i])]
        evaluated_green_queryset == [i \in 1..Len(green_list) |-> green_list[i]]
    IN evaluated_green_queryset \o grey_domains

(* ------------------------------ the state ------------------------------ *)
NoCall == [op |-> "none", arg |-> <<>>, raised |-> "none", ret |-> <<>>,
           res |-> <<>>, lookups |-> 0]
Call(op, arg, raised, ret, res, lookups) ==
    [op |-> op, arg |-> arg, raised |-> raised, ret |-> ret, res |-> res,
     lookups |-> lookups]

Idle == call.op \in {"none", "destroy"}

(* ------------------------------- actions ------------------------------- *)
(* a caller runs check_domain(domain) *)
CheckDomain ==
    /\ Idle
    /\ now < MaxClock
    /\ \E domain \in Hosts, dns \in DnsAnswers, asn_result \in FewLookups :
          LET r == check_domain(domain, dns, asn_result)
          IN call' = Call("check_domain", <<domain, dns, asn_result>>,
                          r.raised, r.ret, r.ret, r.lookups)
    /\ prev' = Null
    /\ now' = now + 1
    /\ UNCHANGED <<ranges, asns, urls_list, queryset>>

(* the caller repeats its last check_domain call, nothing changed between *)
CheckDomainAgain ==
    /\ call.op = "check_domain"
    /\ now < MaxClock
    /\ LET r == check_domain(call.arg[1], call.arg[2], call.arg[3])
       IN call' = Call("check_domain", call.arg, r.raised, r.ret, r.ret, r.lookups)
    /\ prev' = Some(call)
    /\ now' = now + 1
    /\ UNCHANGED <<ranges, asns, urls_list, queryset>>

(* a caller runs perform_full_lookup(domain) *)
PerformFullLookup ==
    /\ Idle
    /\ now < MaxClock
    /\ \E domain \in Hosts, dns \in DnsAnswers, asn_result \in FewLookups :
          LET r == perform_full_lookup(domain, dns, asn_result)
              c == check_domain(domain, dns, asn_result)
          IN call' = Call("perform_full_lookup", <<domain, dns, asn_result>>,
                          r.raised, r.ret, c.ret, r.lookups)
    /\ prev' = Null
    /\ now' = now + 1
    /\ UNCHANGED <<ranges, asns, urls_list, queryset>>

(* a caller runs check_for_matching_ip_ranges(ip) *)
CheckForMatchingIpRanges ==
    /\ Idle
    /\ \E ip \in IPs :
          call' = Call("check_for_matching_ip_ranges", <<ip>>, "none",
                       check_for_matching_ip_ranges(ip), Null, 0)
    /\ prev' = Null
    /\ UNCHANGED <<ranges, asns, now, urls_list, queryset>>

(* a caller runs check_for_matching_asn(ip), the service answering asn_result *)
CheckForMatchingAsn ==
    /\ Idle
    /\ \E asn_result \in AllLookups :
          LET m == check_for_matching_asn(asn_result)
          IN call' = Call("check_for_matching_asn", <<asn_result>>, m.raised,
                          m.row, Null, 1)
    /\ prev' = Null
    /\ UNCHANGED <<ranges, asns, now, urls_list, queryset>>

(* the caller takes the result; the checker keeps nothing between calls *)
Return ==
    /\ call.op \notin {"none", "destroy"}
    /\ call' = NoCall
    /\ prev' = Null
    /\ UNCHANGED <<ranges, asns, now, urls_list, queryset>>

(* ASNViewSet destroy: the row stays, marked inactive *)
Destroy ==
    /\ \E i \in DOMAIN asns :
          /\ asns[i].active
          /\ asns' = [asns EXCEPT ![i].active = FALSE]
          /\ call' = Call("destroy", <<i>>, "none", Null, Null, 0)
    /\ prev' = Null
    /\ UNCHANGED <<ranges, now, urls_list, queryset>>

(* a caller runs grey_urls_only(urls_list, queryset) *)
GreyUrlsOnly ==
    /\ call.op = "none"
    /\ call' = Call("grey_urls_only", <<urls_list, queryset>>, "none",
                    grey_urls_only(urls_list, queryset), Null, 0)
    /\ UNCHANGED <<ranges, asns, now, prev, urls_list, queryset>>

(* a caller runs build_green_greylist(urls_list, queryset) *)
BuildGreenGreylist ==
    /\ call.op = "none"
    /\ call' = Call("build_green_greylist", <<urls_list, queryset>>, "none",
                    build_green_greylist(urls_list, queryset), Null, 0)
    /\ UNCHANGED <<ranges, asns, now, prev, urls_list, queryset>>

(* a caller feeds the output of grey_urls_only to build_green_greylist *)
BuildFromGreyOnly ==
    /\ call.op = "grey_urls_only"
    /\ call' = Call("build_from_grey_only", <<call.ret, queryset>>, "none",
                    build_green_greylist(call.ret, queryset), Null, 0)
    /\ UNCHANGED <<ranges, asns, now, prev, urls_list, queryset>>

(* --------------------------- specifications ---------------------------- *)
GreenRows == {GreenDomain(u, Some(11), TRUE) : u \in Urls}

InitCommon == now = 0 /\ call = NoCall /\ prev = Null

(* single checks against both tables *)
Init ==
    /\ ranges \in {MakeRanges(t) : t \in RangeTables}
    /\ asns \in {MakeAsns(t) : t \in UniqueAsnTables}
    /\ urls_list = <<>> /\ queryset = <<>>
    /\ InitCommon

Next ==
    \/ CheckDomain
    \/ CheckDomainAgain
    \/ PerformFullLookup
    \/ CheckForMatchingIpRanges
    \/ Return
    \/ Destroy

Spec == Init /\ [][Next]_vars

(* the ASN table alone, every answer of the lookup service *)
InitAsn ==
    /\ ranges = <<>>
    /\ asns \in {MakeAsns(t) : t \in AsnTables}
    /\ urls_list = <<>> /\ queryset = <<>>
    /\ InitCommon

NextAsn ==
    \/ CheckForMatchingAsn
    \/ CheckDomain
    \/ Return
    \/ Destroy

SpecAsn == InitAsn /\ [][NextAsn]_vars

(* the batch helpers *)
InitBatch ==
    /\ ranges = <<>> /\ asns = <<>>
    /\ urls_list \in SeqsUpTo(Urls, MaxUrls)
    /\ queryset \in SeqsUpTo(GreenRows, MaxGreen)
    /\ InitCommon

NextBatch ==
    \/ GreyUrlsOnly
    \/ BuildGreenGreylist
    \/ BuildFromGreyOnly

SpecBatch == InitBatch /\ [][NextBatch]_vars

(* ------------------------------- claims -------------------------------- *)
Containing(ip) ==
    {i \in DOMAIN ranges : ranges[i].ip_start <= ip /\ ip <= ranges[i].ip_end}
Span(i) == ranges[i].ip_end - ranges[i].ip_start

(* C1: check_for_matching_ip_ranges returns nothing exactly when no range  *)
(* contains the address, and otherwise a containing range of minimal span  *)
C1_SmallestRange ==
    call.op = "check_for_matching_ip_ranges" =>
        LET ip == call.arg[1]
        IN /\ (call.ret = Null <=> Containing(ip) = {})
           /\ call.ret # Null =>
                \E i \in Containing(ip) :
                    /\ call.ret[1] = ranges[i]
                    /\ \A j \in Containing(ip) : Span(i) <= Span(j)

(* C2: check_for_matching_asn never returns an inactive row, and           *)
(* check_domain never reports an 'as' match that rests on an inactive row  *)
C2_NeverInactive ==
    /\ (call.op = "check_for_matching_asn" /\ call.ret # Null)
          => call.ret[1].active
    /\ (call.op = "check_domain" /\ call.ret # Null
            /\ call.ret[1].match_type = Some("as"))
          => \E i \in DOMAIN asns :
                /\ Some(asns[i].id) = call.ret[1].match_ip_range
                /\ asns[i].active

Candidates(text) == SelectSeq(split(text), LAMBDA tok : tok # <<>>)
HasActiveEntry(tok) ==
    IsNumber(tok) /\ \E i \in DOMAIN asns : asns[i].asn = int(tok) /\ asns[i].active

(* C3: for a multi-ASN string the row returned belongs to the first        *)
(* candidate, in the service's order, that has an active registered row;   *)
(* nothing is returned when no candidate has one                           *)
C3_FirstActiveCandidate ==
    (/\ call.op = "check_for_matching_asn"
     /\ call.arg[1].kind = "str"
     /\ Len(split(call.arg[1].text)) >= 2
     /\ \A k \in DOMAIN split(call.arg[1].text) :
           IsNumber(split(call.arg[1].text)[k])) =>
        LET cands == Candidates(call.arg[1].text)
            hits == {k \in DOMAIN cands : HasActiveEntry(cands[k])}
        IN /\ call.raised = "none"
           /\ IF hits = {} THEN call.ret = Null
              ELSE LET k == CHOOSE m \in hits : \A n \in hits : m <= n
                   IN /\ call.ret # Null
                      /\ call.ret[1].asn = int(cands[k])
                      /\ call.ret[1].active

(* C4: a range that contains the resolved address decides the result       *)
(* (green, 'ip', the range's id and owner) without the ASN service being   *)
(* asked; the service is asked, and an 'as' result with the ASN row's id   *)
(* and owner produced, only when no range contains the address             *)
C4_RangesBeforeAsn ==
    (call.op = "check_domain" /\ call.arg[2] # "gaierror") =>
        LET hit == Containing(ipaddress_ip_address(call.arg[2]))
        IN /\ hit # {} =>
                /\ call.raised = "none"
                /\ call.lookups = 0
                /\ call.ret[1].green
                /\ call.ret[1].match_type = Some("ip")
                /\ \E i \in hit :
                      /\ call.ret[1].match_ip_range = Some(ranges[i].id)
                      /\ call.ret[1].hosting_provider_id
                            = Some(ranges[i].hostingprovider)
           /\ call.lookups > 0 => hit = {}
           /\ (call.ret # Null /\ call.ret[1].match_type = Some("as")) =>
                /\ hit = {}
                /\ call.lookups = 1
                /\ \E i \in DOMAIN asns :
                      /\ call.ret[1].match_ip_range = Some(asns[i].id)
                      /\ call.ret[1].hosting_provider_id
                            = Some(asns[i].hostingprovider)

(* a range contains the address while an active ASN row matches as well *)
C4_Witness ==
    /\ call.op = "check_domain" /\ call.arg[2] # "gaierror"
    /\ Containing(ipaddress_ip_address(call.arg[2])) # {}
    /\ call.arg[3].kind = "int"
    /\ \E i \in DOMAIN asns : asns[i].asn = call.arg[3].int /\ asns[i].active
    /\ call.ret[1].match_type = Some("ip")

(* C5: check_domain fails if and only if resolution fails; once the host   *)
(* resolves a result is returned whatever the ASN lookup does, grey when   *)
(* the lookup fails and no range contains the address                      *)
C5_FailsOnlyOnResolution ==
    call.op = "check_domain" =>
        /\ (call.raised # "none" <=> call.arg[2] = "gaierror")
        /\ (call.raised = "none" <=> call.ret # Null)
        /\ (/\ call.arg[2] # "gaierror"
            /\ call.arg[3].kind \in {"IPDefinedError", "Exception"}
            /\ Containing(ipaddress_ip_address(call.arg[2])) = {})
              => (call.ret # Null /\ ~call.ret[1].green)

SameButTime(a, b) ==
    /\ a.raised = b.raised
    /\ (a.ret = Null) <=> (b.ret = Null)
    /\ a.ret # Null =>
          [a.ret[1] EXCEPT !.checked_at = 0] = [b.ret[1] EXCEPT !.checked_at = 0]

NotIn(url, qs) == \A i \in DOMAIN qs : qs[i].url # url
Kept(urls, qs) == {i \in DOMAIN urls : NotIn(urls[i], qs)}

(* C7: grey_urls_only returns exactly the requested hosts equal to no      *)
(* known-green url, in their order and multiplicity, by exact string       *)
(* equality, and leaves both inputs as they were                           *)
C7_GreyOnly ==
    call.op = "grey_urls_only" =>
        LET kept == Kept(urls_list, queryset)
        IN /\ Len(call.ret) = Cardinality(kept)
           /\ \A i \in kept :
                call.ret[Cardinality({j \in kept : j <= i})] = urls_list[i]
           /\ call.arg = <<urls_list, queryset>>

(* a host differing only in case from a green url is kept, next to a       *)
(* removed host and a host requested twice                                 *)
C7_Witness ==
    /\ call.op = "grey_urls_only"
    /\ \E i \in DOMAIN queryset : queryset[i].url = "a.com"
    /\ \E i, j \in DOMAIN urls_list :
          urls_list[i] = "A.com" /\ urls_list[j] = "a.com"
    /\ \E i, j \in DOMAIN call.ret : i # j /\ call.ret[i] = call.ret[j]

Distinct(seq) == \A i, j \in DOMAIN seq : seq[i] = seq[j] => i = j
UrlsOf(seq) == [i \in DOMAIN seq |-> seq[i].url]

BuildShape ==
    LET grey_list == call.arg[1]
        green_list == call.arg[2]
    IN /\ Len(call.ret) = Len(green_list) + Len(grey_list)
       /\ \A i \in DOMAIN green_list : call.ret[i] = green_list[i]
       /\ \A i \in DOMAIN grey_list :
             LET g == call.ret[Len(green_list) + i]
             IN g.url = grey_list[i] /\ ~g.green /\ g.hosted_by_id = Null

(* C8 as stated: green rows then one grey summary per grey host, and with  *)
(* the grey hosts coming from grey_urls_only over distinct requested hosts *)
(* no domain appears twice in the combined sequence                        *)
C8_Original ==
    /\ call.op \in {"build_green_greylist", "build_from_grey_only"} => BuildShape
    /\ (call.op = "build_from_grey_only" /\ Distinct(urls_list))
          => Distinct(UrlsOf(call.ret))

(* C8 amended: the same, the absence of repeated domains holding when the  *)
(* known-green collection itself lists no url twice                        *)
C8_Amended ==
    /\ call.op \in {"build_green_greylist", "build_from_grey_only"} => BuildShape
    /\ (call.op = "build_from_grey_only" /\ Distinct(urls_list)
            /\ Distinct(UrlsOf(queryset)))
          => Distinct(UrlsOf(call.ret))

(* the pipeline on distinct hosts and distinct green urls, one host green  *)
(* and one grey                                                            *)
C8_Witness ==
    /\ call.op = "build_from_grey_only"
    /\ Distinct(urls_list) /\ Distinct(UrlsOf(queryset))
    /\ call.arg[1] # <<>> /\ Len(call.arg[1]) < Len(urls_list)
    /\ Len(queryset) > 1

(* C9: perform_full_lookup returns a grey summary exactly when the result  *)
(* of check_domain is not green, that summary carrying the caller's input  *)
(* string; a green result is projected from the check_domain result; the   *)
(* tables and the known-green rows stay as they were                       *)
C9_FullLookup ==
    [][(call'.op = "perform_full_lookup" /\ call.op # "perform_full_lookup") =>
          /\ UNCHANGED <<ranges, asns, queryset>>
          /\ call'.raised = "none" =>
               LET res == call'.res[1]
                   g == call'.ret[1]
               IN /\ ~g.green <=> ~res.green
                  /\ ~res.green =>
                        g = [url |-> call'.arg[1], hosted_by_id |-> Null,
                             green |-> FALSE]
                  /\ res.green =>
                        /\ g.url = res.url
                        /\ g.hosted_by_id = res.hosting_provider_id
                        /\ g.green]_vars

(* a lookup of a host that resolves and matches nothing *)
C9_Witness ==
    /\ call.op = "perform_full_lookup" /\ call.raised = "none"
    /\ ~call.ret[1].green
    /\ call.arg[1] = "b.com"
    /\ call.res[1].ip # call.arg[1]

(* C10: every result of check_domain has green = data; green exactly when  *)
(* match type, matched id and provider id are all set, the type being 'ip' *)
(* or 'as'; a grey result has none of them; url is the host passed in and  *)
(* ip the address it resolved to                                           *)
C10_Consistent ==
    (call.op = "check_domain" /\ call.ret # Null) =>
        LET r == call.ret[1]
            set == {f \in {"t", "m", "h"} :
                      CASE f = "t" -> r.match_type # Null
                        [] f = "m" -> r.match_ip_range # Null
                        [] f = "h" -> r.hosting_provider_id # Null}
        IN /\ r.green = r.data
           /\ r.green <=> set = {"t", "m", "h"}
           /\ r.green => r.match_type \in {Some("ip"), Some("as")}
           /\ ~r.green => set = {}
           /\ r.url = call.arg[1]
           /\ r.ip = call.arg[2]

(* a grey result after an ASN lookup that found nothing *)
C10_Witness ==
    /\ call.op = "check_domain" /\ call.ret # Null
    /\ ~call.ret[1].green
    /\ call.lookups = 1
    /\ call.arg[3].kind = "int"

====
